---- MODULE Spec2Model ----
(***************************************************************************)
(* Model of the two demo programs of the repository:                       *)
(*   src/ex1/data_stream.py      DataStream / SensorStream /               *)
(*                               TransactionStream / EventStream /         *)
(*                               StreamProcessor                           *)
(*   src/ex0/stream_processor.py NumericProcessor / TextProcessor /        *)
(*                               LogProcessor                              *)
(* The only mutable program state is the processed_count of each stream.   *)
(* Every call is one action; `last` records the call just made (its        *)
(* arguments, what it returned or raised, and the streams before it) until *)
(* the caller resumes.                                                     *)
(***************************************************************************)
EXTENDS Integers, Sequences, FiniteSets, TLC

MaxLen == 2        \* longest batch given to a direct call
MaxCount == 3      \* cap on processed_count (guards only)
MaxMapLen == 1     \* longest batch inside a data_map of an orchestrator pass

(***************************************************************************)
(* Python values.  Every value is a record of one shape:                   *)
(*   kind  "int" | "nan" | "bigint" | "str" | "none" | "list"              *)
(*   val   the number of an "int"                                          *)
(*   text  the characters of a "str"                                       *)
(*   elems the items of a "list" (items are scalars)                       *)
(* "nan" is float('nan'); "bigint" is an int beyond the float range        *)
(* (10**400).                                                              *)
(***************************************************************************)
PyInt(n) == [kind |-> "int", val |-> n, text |-> <<>>, elems |-> <<>>]

NaN == [kind |-> "nan", val |-> 0, text |-> <<>>, elems |-> <<>>]

BigInt == [kind |-> "bigint", val |-> 0, text |-> <<>>, elems |-> <<>>]

Str(s) == [kind |-> "str", val |-> 0, text |-> s, elems |-> <<>>]

None == [kind |-> "none", val |-> 0, text |-> <<>>, elems |-> <<>>]

List(b) == [kind |-> "list", val |-> 0, text |-> <<>>, elems |-> b]

IsNumber(v) == v.kind \in {"int", "nan", "bigint"}

(***************************************************************************)
(* String literals of the source, as character sequences.                  *)
(***************************************************************************)
s_error == <<"e", "r", "r", "o", "r">>

s_login == <<"l", "o", "g", "i", "n">>

s_disk_error == <<"d", "i", "s", "k", " ">> \o s_error

s_ERROR == <<"E", "R", "R", "O", "R">>

s_INFO == <<"I", "N", "F", "O">>

s_ERROR_line == s_ERROR \o <<":", " ", "x">>

s_INFO_line == s_INFO \o <<":", " ", "o", "k">>

s_Hi == <<"H", "i", "!">>

\* str.find(sub) > -1, and `sub in s` for two strings
Contains(s, sub) ==
    \E i \in 0..(Len(s) - Len(sub)) : SubSeq(s, i + 1, i + Len(sub)) = sub

(***************************************************************************)
(* Outcome of a call: a normal return (exc = "none") carrying `ret`, or a  *)
(* raised exception named by exc.                                          *)
(***************************************************************************)
Return(r) == [exc |-> "none", ret |-> r]

Raise(e) == [exc |-> e, ret |-> None]

(***************************************************************************)
(* a + b for the accumulator of sum() and one item                         *)
(***************************************************************************)
Add(a, b) ==
    IF ~IsNumber(b) THEN Raise("TypeError")
    ELSE IF a.kind = "int" /\ b.kind = "int" THEN Return(PyInt(a.val + b.val))
    ELSE IF {a.kind, b.kind} = {"nan", "bigint"} THEN Raise("OverflowError")
    ELSE IF "nan" \in {a.kind, b.kind} THEN Return(NaN)
    ELSE Return(BigInt)

RECURSIVE SumFrom(_, _, _)
SumFrom(acc, batch, i) ==
    IF i > Len(batch) THEN Return(acc)
    ELSE LET r == Add(acc, batch[i])
         IN  IF r.exc # "none" THEN r ELSE SumFrom(r.ret, batch, i + 1)

\* the builtin sum(data_batch): 0 + item1 + item2 + ...
Sum(batch) == SumFrom(PyInt(0), batch, 1)

(***************************************************************************)
(* total / n : true division, the quotient kept as the pair (num, den)     *)
(***************************************************************************)
Quotient(num, den) == [kind |-> "float", num |-> num, den |-> den]

NanQuotient == [kind |-> "nan", num |-> 0, den |-> 1]

Div(total, n) ==
    IF n = 0 THEN Raise("ZeroDivisionError")
    ELSE IF total.kind = "bigint" THEN Raise("OverflowError")
    ELSE IF total.kind = "nan" THEN Return(NanQuotient)
    ELSE Return(Quotient(total.val, n))

\* a total (int, nan or bigint) as it appears in a result string
Total(v) == [kind |-> v.kind, num |-> v.val, den |-> 1]

(***************************************************************************)
(* item > k, item >= k, item <= k, item < k  (k a small int)               *)
(***************************************************************************)
Compare(item, op, k) ==
    IF item.kind = "int"
    THEN Return(CASE op = ">"  -> item.val > k
                  [] op = ">=" -> item.val >= k
                  [] op = "<=" -> item.val <= k
                  [] op = "<"  -> item.val < k)
    ELSE IF item.kind = "nan" THEN Return(FALSE)
    ELSE IF item.kind = "bigint" THEN Return(op \in {">", ">="})
    ELSE Raise("TypeError")

\* "error" in item   /   "error" not in item
In(item, negated) ==
    IF item.kind = "str"
    THEN Return(Contains(item.text, s_error) # negated)
    ELSE Raise("TypeError")

\* variant: >= 30 for "high"
Condition_HighInclusive(criteria, item) ==
    CASE criteria = "high"     -> Compare(item, ">=", 30)
      [] criteria = "standard" -> Compare(item, "<=", 30)
      [] criteria = "positive" -> Compare(item, ">=", 0)
      [] criteria = "negative" -> Compare(item, "<", 0)
      [] criteria = "error"    -> In(item, FALSE)
      [] criteria = "info"     -> In(item, TRUE)

\* the condition of each list comprehension of the filter_data methods
Condition(criteria, item) ==
    CASE criteria = "high"     -> Compare(item, ">", 30)
      [] criteria = "standard" -> Compare(item, "<=", 30)
      [] criteria = "positive" -> Compare(item, ">=", 0)
      [] criteria = "negative" -> Compare(item, "<", 0)
      [] criteria = "error"    -> In(item, FALSE)
      [] criteria = "info"     -> In(item, TRUE)

\* [data for data in data_batch if <condition>], from item i on
RECURSIVE Comprehension(_, _, _, _)
Comprehension(criteria, batch, i, acc) ==
    IF i > Len(batch) THEN Return(acc)
    ELSE LET c == Condition(criteria, batch[i])
         IN  IF c.exc # "none" THEN Raise(c.exc)
             ELSE Comprehension(criteria, batch, i + 1,
                                IF c.ret THEN Append(acc, batch[i]) ELSE acc)

(***************************************************************************)
(* Streams.  A stream object is a record                                   *)
(*   cls, stream_id, processed_count, type                                 *)
(***************************************************************************)
NoCriteria == "None"      \* criteria is None

DataStream(cls, stream_id, type) ==
    [cls |-> cls, stream_id |-> stream_id, processed_count |-> 0,
     type |-> type]

SensorStream(stream_id) ==
    DataStream("SensorStream", stream_id, "Environmental Data")

TransactionStream(stream_id) ==
    DataStream("TransactionStream", stream_id, "Transaction Stream")

EventStream(stream_id) ==
    DataStream("EventStream", stream_id, "Event Stream")

\* the two kinds of string process_batch returns
Processed(self, n, agg) ==
    [tag |-> "processed", stream_id |-> self.stream_id, n |-> n, agg |-> agg]

Invalid(self) ==
    [tag |-> "invalid", stream_id |-> self.stream_id, n |-> 0,
     agg |-> Total(PyInt(0))]

\* outcome of a method: what it returned or raised, and the object after
Done(outcome, self) == [exc |-> outcome.exc, ret |-> outcome.ret, self |-> self]

\* variant: one per call instead of one per item
Counted_PerCall(self, n) ==
    [self EXCEPT !.processed_count = self.processed_count + 1]

Counted(self, n) ==
    [self EXCEPT !.processed_count = self.processed_count + n]

\* variant: except TypeError only
SensorProcessBatch_TypeErrorOnly(self, batch) ==
    LET total == Sum(batch)
        average == IF total.exc = "none" THEN Div(total.ret, Len(batch))
                   ELSE total
    IN  IF average.exc = "TypeError"
        THEN Done(Return(Invalid(self)), self)
        ELSE IF average.exc # "none" THEN Done(average, self)
        ELSE Done(Return(Processed(self, Len(batch), average.ret)),
                  Counted(self, Len(batch)))

SensorProcessBatch(self, batch) ==
    LET total == Sum(batch)
        average == IF total.exc = "none" THEN Div(total.ret, Len(batch))
                   ELSE total
    IN  IF average.exc \in {"TypeError", "ZeroDivisionError"}
        THEN Done(Return(Invalid(self)), self)
        ELSE IF average.exc # "none" THEN Done(average, self)
        ELSE Done(Return(Processed(self, Len(batch), average.ret)),
                  Counted(self, Len(batch)))

TransactionProcessBatch(self, batch) ==
    LET total == Sum(batch)
    IN  IF total.exc = "TypeError"
        THEN Done(Return(Invalid(self)), self)
        ELSE IF total.exc # "none" THEN Done(total, self)
        ELSE Done(Return(Processed(self, Len(batch), Total(total.ret))),
                  Counted(self, Len(batch)))

\* sum(1 for event in data_batch if isinstance(event, str) and "error" in event)
ErrorCount(batch) ==
    Cardinality({i \in 1..Len(batch) :
                    batch[i].kind = "str" /\ Contains(batch[i].text, s_error)})

\* variant: `=` in place of `+=`
EventProcessBatch_Assign(self, batch) ==
    LET total == Len(batch)
        error_count == ErrorCount(batch)
    IN  Done(Return(Processed(self, total, Total(PyInt(error_count)))),
             [self EXCEPT !.processed_count = total])

EventProcessBatch(self, batch) ==
    LET total == Len(batch)
        error_count == ErrorCount(batch)
    IN  Done(Return(Processed(self, total, Total(PyInt(error_count)))),
             Counted(self, total))

process_batch(self, batch) ==
    CASE self.cls = "SensorStream"      -> SensorProcessBatch(self, batch)
      [] self.cls = "TransactionStream" -> TransactionProcessBatch(self, batch)
      [] self.cls = "EventStream"       -> EventProcessBatch(self, batch)

Recognized(cls) ==
    CASE cls = "SensorStream"      -> {"high", "standard"}
      [] cls = "TransactionStream" -> {"positive", "negative"}
      [] cls = "EventStream"       -> {"error", "info"}

\* variant: an unrecognized criteria selects nothing
filter_data_Empty(self, batch, criteria) ==
    IF criteria = NoCriteria THEN Done(Return(batch), self)
    ELSE IF criteria \in Recognized(self.cls)
         THEN Done(Comprehension(criteria, batch, 1, <<>>), self)
         ELSE Done(Return(<<>>), self)

\* the three filter_data overrides have one shape and differ in the two
\* criteria they recognize
filter_data(self, batch, criteria) ==
    IF criteria = NoCriteria THEN Done(Return(batch), self)
    ELSE IF criteria \in Recognized(self.cls)
         THEN Done(Comprehension(criteria, batch, 1, <<>>), self)
         ELSE Done(Return(batch), self)

\* variant: reading the statistics resets the count
get_stats_Reset(self) ==
    Done(Return([stream_id |-> self.stream_id,
                 processed_count |-> self.processed_count]),
         [self EXCEPT !.processed_count = 0])

get_stats(self) ==
    Done(Return([stream_id |-> self.stream_id,
                 processed_count |-> self.processed_count]), self)

(***************************************************************************)
(* StreamProcessor.  A data_map / criteria_map is a function whose domain  *)
(* is the set of stream identifiers that have an entry.  What the pass     *)
(* prints is the report: one line per print call.                          *)
(***************************************************************************)
\* variant: a missing entry yields a placeholder batch [None]
Get_Placeholder(map, key, default) ==
    IF key \in DOMAIN map THEN map[key] ELSE <<None>>

\* dict.get(key, default)
Get(map, key, default) == IF key \in DOMAIN map THEN map[key] ELSE default

\* print(result) / print(f"Processing error in ...") of process_streams;
\* batch is the argument process_batch was called with
ProcessLine(self, batch, r) ==
    [stream_id |-> self.stream_id,
     kind |-> IF r.exc = "none" THEN "result" ELSE "error",
     exc |-> r.exc,
     batch |-> batch,
     tag |-> IF r.exc = "none" THEN r.ret.tag ELSE "none",
     n |-> IF r.exc = "none" THEN r.ret.n ELSE 0]

\* the two print calls of filter_streams
FilterLine(self, batch, r) ==
    [stream_id |-> self.stream_id,
     kind |-> IF r.exc = "none" THEN "result" ELSE "error",
     exc |-> r.exc,
     batch |-> batch,
     tag |-> "filtered",
     n |-> IF r.exc = "none" THEN Len(r.ret) ELSE 0]

\* variant: the first exception ends the pass
RECURSIVE process_streams_Abort(_, _, _, _)
process_streams_Abort(ss, data_map, i, report) ==
    IF i > Len(ss) THEN [streams |-> ss, report |-> report]
    ELSE LET batch == Get(data_map, ss[i].stream_id, <<>>)
             r == process_batch(ss[i], batch)
             lines == Append(report, ProcessLine(ss[i], batch, r))
         IN  IF r.exc # "none" THEN [streams |-> ss, report |-> lines]
             ELSE process_streams_Abort([ss EXCEPT ![i] = r.self], data_map,
                                        i + 1, lines)

\* the loop of process_streams, from stream i on
RECURSIVE process_streams(_, _, _, _)
process_streams(ss, data_map, i, report) ==
    IF i > Len(ss) THEN [streams |-> ss, report |-> report]
    ELSE LET batch == Get(data_map, ss[i].stream_id, <<>>)
             r == process_batch(ss[i], batch)
         IN  process_streams([ss EXCEPT ![i] = r.self], data_map, i + 1,
                             Append(report, ProcessLine(ss[i], batch, r)))

\* the loop of filter_streams, from stream i on
RECURSIVE filter_streams(_, _, _, _, _)
filter_streams(ss, data_map, criteria_map, i, report) ==
    IF i > Len(ss) THEN [streams |-> ss, report |-> report]
    ELSE LET batch == Get(data_map, ss[i].stream_id, <<>>)
             criteria == Get(criteria_map, ss[i].stream_id, NoCriteria)
             r == filter_data(ss[i], batch, criteria)
         IN  filter_streams([ss EXCEPT ![i] = r.self], data_map, criteria_map,
                            i + 1,
                            Append(report, FilterLine(ss[i], batch, r)))

(***************************************************************************)
(* Processors (src/ex0).  Processors have no state.                        *)
(***************************************************************************)
\* iterating a value: the items of a list, the characters of a string
Iter(data) ==
    IF data.kind = "list" THEN Return(data.elems)
    ELSE IF data.kind = "str"
         THEN Return([i \in 1..Len(data.text) |-> Str(<<data.text[i]>>)])
         ELSE Raise("TypeError")

\* attribute lookup v.name; int.is_integer exists from Python 3.12 on
Attr(v, name, int_is_integer) ==
    IF name = "is_integer"
    THEN IF v.kind = "nan" \/ (v.kind \in {"int", "bigint"} /\ int_is_integer)
         THEN Return(v) ELSE Raise("AttributeError")
    ELSE IF v.kind = "str" THEN Return(v) ELSE Raise("AttributeError")

\* the except clause of the three validate methods
Caught(exc) == exc \in {"AttributeError", "TypeError"}

NumericValidate(data, int_is_integer) ==
    LET it == Iter(data)
        exc == IF it.exc # "none" THEN it.exc
               ELSE IF \E i \in 1..Len(it.ret) :
                          Attr(it.ret[i], "is_integer", int_is_integer).exc
                              # "none"
                    THEN "AttributeError"
                    ELSE "none"
    IN  IF Caught(exc) THEN Return(FALSE)
        ELSE IF exc # "none" THEN Raise(exc)
        ELSE Return(TRUE)

TextValidate(data, int_is_integer) ==
    LET exc == Attr(data, "capitalize", int_is_integer).exc
    IN  IF Caught(exc) THEN Return(FALSE)
        ELSE IF exc # "none" THEN Raise(exc)
        ELSE Return(TRUE)

LogValidate(data, int_is_integer) ==
    LET exc == Attr(data, "find", int_is_integer).exc
    IN  IF Caught(exc) THEN Return(FALSE)
        ELSE IF exc # "none" THEN Raise(exc)
        ELSE IF Contains(data.text, s_ERROR) \/ Contains(data.text, s_INFO)
             THEN Return(TRUE)
             ELSE Return(FALSE)

validate(cls, data, int_is_integer) ==
    CASE cls = "NumericProcessor" -> NumericValidate(data, int_is_integer)
      [] cls = "TextProcessor"    -> TextValidate(data, int_is_integer)
      [] cls = "LogProcessor"     -> LogValidate(data, int_is_integer)

\* len(data)
PyLen(data) ==
    IF data.kind = "list" THEN Return(Len(data.elems))
    ELSE IF data.kind = "str" THEN Return(Len(data.text))
    ELSE Raise("TypeError")

\* NumericProcessor.process: the f-string evaluates len(data), sum(data)
\* and sum(data) / len(data), in this order
NumericProcess(data) ==
    LET n == PyLen(data)
        total == IF n.exc # "none" THEN n ELSE Sum(Iter(data).ret)
        average == IF total.exc # "none" THEN total
                   ELSE Div(total.ret, n.ret)
    IN  IF average.exc # "none" THEN Raise(average.exc)
        ELSE Return([n |-> n.ret, sum |-> Total(total.ret),
                     avg |-> average.ret])

(***************************************************************************)
(* Inputs of the calls                                                     *)
(***************************************************************************)
SeqsUpTo(S, n) == UNION {[1..k -> S] : k \in 0..n}

Items ==
    {PyInt(-75), PyInt(0), PyInt(30), PyInt(50), NaN, BigInt,
     Str(s_disk_error), Str(s_login)}

Batches == SeqsUpTo(Items, MaxLen)

Criteria ==
    {NoCriteria, "high", "standard", "positive", "negative", "error", "info",
     "other"}

Ids == {"SENSOR_001", "TRANS_001", "EVENT_001"}

MapItems == {PyInt(50), BigInt, Str(s_disk_error)}

DataMaps == UNION {[D -> SeqsUpTo(MapItems, MaxMapLen)] : D \in SUBSET Ids}

\* filter_criteria of main
filter_criteria ==
    [id \in Ids |-> CASE id = "SENSOR_001" -> "high"
                      [] id = "TRANS_001"  -> "negative"
                      [] id = "EVENT_001"  -> "error"]

CriteriaMaps ==
    {filter_criteria, [id \in {} |-> "other"], [id \in Ids |-> "error"]}

DataValues ==
    Items \cup {None, PyInt(45), Str(<<>>), Str(s_Hi), Str(s_ERROR_line),
                Str(s_INFO_line)}
          \cup {List(b) : b \in SeqsUpTo(Items, MaxMapLen)}

Processors == {"NumericProcessor", "TextProcessor", "LogProcessor"}

(***************************************************************************)
(* State                                                                   *)
(***************************************************************************)
VARIABLES
    streams,    \* StreamProcessor.streams: the stream objects, in order
    succeeded,  \* per stream: sum of len(batch) over the process_batch
                \* calls that returned a normal result (history)
    last        \* the call that has just returned or raised, "idle" if none

vars == <<streams, succeeded, last>>

N == Len(streams)

\* what a call yields when it raises or when the field is not its own
NoResult == [tag |-> "none", stream_id |-> "", n |-> 0, agg |-> Total(PyInt(0))]

NoStats == [stream_id |-> "", processed_count |-> 0]

NoSummary ==
    [n |-> 0, sum |-> Total(PyInt(0)), avg |-> Total(PyInt(0))]

NoMap == [id \in {} |-> <<>>]

Idle ==
    [op |-> "idle", stream |-> 0, cls |-> "", exc |-> "none",
     before |-> <<>>,
     batch |-> <<>>, data |-> None, data_map |-> NoMap,
     criteria |-> NoCriteria, criteria_map |-> NoMap,
     result |-> NoResult, filtered |-> <<>>, stats |-> NoStats,
     report |-> <<>>, valid |-> FALSE, summary |-> NoSummary]

\* the record of a call on the current streams
Call(op, stream, cls, exc) ==
    [Idle EXCEPT !.op = op, !.stream = stream, !.cls = cls, !.exc = exc,
                 !.before = streams]

\* the value a call returned, or the placeholder when it raised
Returned(r, placeholder) == IF r.exc = "none" THEN r.ret ELSE placeholder

\* data_streams of main
Init ==
    /\ streams = <<SensorStream("SENSOR_001"), TransactionStream("TRANS_001"),
                   EventStream("EVENT_001")>>
    /\ succeeded = [i \in 1..3 |-> 0]
    /\ last = Idle

Succeeded(r, batch) ==
    IF r.exc = "none" /\ r.ret.tag = "processed" THEN Len(batch) ELSE 0

\* a direct call stream.process_batch(batch)
ProcessBatch ==
    /\ last.op = "idle"
    /\ \E i \in 1..N, batch \in Batches :
          LET r == process_batch(streams[i], batch)
          IN  /\ streams[i].processed_count + Len(batch) <= MaxCount
              /\ streams' = [streams EXCEPT ![i] = r.self]
              /\ succeeded' =
                    [succeeded EXCEPT ![i] = @ + Succeeded(r, batch)]
              /\ last' =
                    [Call("process_batch", i, streams[i].cls, r.exc)
                        EXCEPT !.batch = batch,
                               !.result = Returned(r, NoResult)]

\* a direct call stream.filter_data(batch, criteria)
FilterData ==
    /\ last.op = "idle"
    /\ \E i \in 1..N, batch \in Batches, criteria \in Criteria :
          LET r == filter_data(streams[i], batch, criteria)
          IN  /\ streams' = [streams EXCEPT ![i] = r.self]
              /\ last' =
                    [Call("filter_data", i, streams[i].cls, r.exc)
                        EXCEPT !.batch = batch, !.criteria = criteria,
                               !.filtered = Returned(r, <<>>)]
              /\ UNCHANGED succeeded

\* a direct call stream.get_stats()
GetStats ==
    /\ last.op = "idle"
    /\ \E i \in 1..N :
          LET r == get_stats(streams[i])
          IN  /\ streams' = [streams EXCEPT ![i] = r.self]
              /\ last' =
                    [Call("get_stats", i, streams[i].cls, r.exc)
                        EXCEPT !.stats = Returned(r, NoStats)]
              /\ UNCHANGED succeeded

\* processor.process_streams(data_map)
ProcessStreams ==
    /\ last.op = "idle"
    /\ \E data_map \in DataMaps :
          LET r == process_streams(streams, data_map, 1, <<>>)
          IN  /\ \A i \in 1..N :
                    streams[i].processed_count
                        + Len(Get(data_map, streams[i].stream_id, <<>>))
                            <= MaxCount
              /\ streams' = r.streams
              /\ succeeded' =
                    [i \in 1..N |->
                        succeeded[i]
                          + IF Len(r.report) >= i
                               /\ r.report[i].tag = "processed"
                            THEN Len(r.report[i].batch) ELSE 0]
              /\ last' =
                    [Call("process_streams", 0, "StreamProcessor", "none")
                        EXCEPT !.data_map = data_map, !.report = r.report]

\* processor.filter_streams(data_map, criteria_map)
FilterStreams ==
    /\ last.op = "idle"
    /\ \E data_map \in DataMaps, criteria_map \in CriteriaMaps :
          LET r == filter_streams(streams, data_map, criteria_map, 1, <<>>)
          IN  /\ streams' = r.streams
              /\ last' =
                    [Call("filter_streams", 0, "StreamProcessor", "none")
                        EXCEPT !.data_map = data_map,
                               !.criteria_map = criteria_map,
                               !.report = r.report]
              /\ UNCHANGED succeeded

\* processor.validate(data) on one of the three processors
Validate ==
    /\ last.op = "idle"
    /\ \E cls \in Processors, data \in DataValues, int_is_integer \in BOOLEAN :
          LET r == validate(cls, data, int_is_integer)
          IN  /\ last' =
                    [Call("validate", 0, cls, r.exc)
                        EXCEPT !.data = data, !.valid = Returned(r, FALSE)]
              /\ UNCHANGED <<streams, succeeded>>

\* NumericProcessor().process(data)
Process ==
    /\ last.op = "idle"
    /\ \E data \in DataValues :
          LET r == NumericProcess(data)
          IN  /\ last' =
                    [Call("process", 0, "NumericProcessor", r.exc)
                        EXCEPT !.data = data,
                               !.summary = Returned(r, NoSummary)]
              /\ UNCHANGED <<streams, succeeded>>

\* the caller takes the result and goes on to its next statement
Resume ==
    /\ last.op # "idle"
    /\ last' = Idle
    /\ UNCHANGED <<streams, succeeded>>

Next ==
    \/ ProcessBatch
    \/ FilterData
    \/ GetStats
    \/ ProcessStreams
    \/ FilterStreams
    \/ Validate
    \/ Process
    \/ Resume

Spec == Init /\ [][Next]_vars

(***************************************************************************)
(* Properties                                                              *)
(***************************************************************************)
Count(i) == streams[i].processed_count

CountBefore(i) == last.before[i].processed_count

\* C1: the processed_count of every stream equals the sum of len(batch) over
\* the process_batch calls on it that returned a normal result; calls that
\* returned the failure string (or raised) contribute nothing.
C1_CountIsSumOfSuccessful ==
    \A i \in 1..N : Count(i) = succeeded[i]

\* a failed call on a stream that already counted items from earlier
\* successful calls
C1_Witness ==
    /\ last.op = "process_batch"
    /\ last.exc = "none"
    /\ last.result.tag = "invalid"
    /\ Len(last.batch) > 0
    /\ CountBefore(last.stream) = 2
    /\ Count(last.stream) = 2

\* C3: every processed_count is a natural number, 0 at construction, and no
\* step of any call lowers it.
C3_Monotone ==
    [][\A i \in 1..N :
          /\ Count(i) \in Nat
          /\ (last.op = "idle" /\ succeeded[i] = 0 => Count(i) = 0)
          /\ streams'[i].processed_count \in Nat
          /\ streams'[i].processed_count >= Count(i)]_vars

\* a stream whose count grew in two separate calls
C3_Witness ==
    /\ last.op \in {"process_batch", "process_streams"}
    /\ \E i \in 1..N :
          /\ CountBefore(i) > 0
          /\ Count(i) > CountBefore(i)

\* C9: filter_data, get_stats and filter_streams (and the processors) leave
\* every stream object as it was; process_batch on one stream leaves every
\* other stream as it was and keeps the identifier and the type label of its
\* own; a process_streams pass changes a stream only by that stream's own
\* process_batch call.
C9_Frame ==
    /\ last.op \in {"filter_data", "get_stats", "filter_streams", "validate",
                    "process"}
          => streams = last.before
    /\ last.op = "process_batch"
          => \A j \in 1..N :
                /\ j # last.stream => streams[j] = last.before[j]
                /\ streams[j].stream_id = last.before[j].stream_id
                /\ streams[j].type = last.before[j].type
    /\ last.op = "process_streams"
          => \A j \in 1..N :
                /\ streams[j].stream_id = last.before[j].stream_id
                /\ streams[j].type = last.before[j].type
                /\ Count(j) - CountBefore(j)
                      \in {0, Len(Get(last.data_map, streams[j].stream_id, <<>>))}

\* a filter_streams pass that selected items, over streams that have counted
C9_Witness ==
    /\ last.op = "filter_streams"
    /\ \A j \in 1..N : Count(j) > 0
    /\ \E j \in 1..N : last.report[j].kind = "result" /\ last.report[j].n > 0

\* C10: in a process_streams pass a stream without an entry in data_by_id
\* has process_batch called with the empty batch, no exception escapes, its
\* processed_count is what it was before the pass, and get_stats returns
\* its identifier with that count.
C10_MissingEntry ==
    last.op = "process_streams" =>
        /\ last.exc = "none"
        /\ \A i \in 1..N :
              last.before[i].stream_id \notin DOMAIN last.data_map =>
                  /\ Len(last.report) >= i
                  /\ last.report[i].stream_id = last.before[i].stream_id
                  /\ last.report[i].batch = <<>>
                  /\ last.report[i].kind = "result"
                  /\ Count(i) = CountBefore(i)
                  /\ get_stats(streams[i]).exc = "none"
                  /\ get_stats(streams[i]).ret =
                        [stream_id |-> last.before[i].stream_id,
                         processed_count |-> CountBefore(i)]

\* a pass whose data_map has no entry for the event stream, which has
\* counted before, while another stream does advance
C10_Witness ==
    /\ last.op = "process_streams"
    /\ "EVENT_001" \notin DOMAIN last.data_map
    /\ CountBefore(3) > 0
    /\ Count(2) > CountBefore(2)

\* did the per-stream call of line i raise?
C4_Raises(i) ==
    LET self == last.before[i]
        batch == Get(last.data_map, self.stream_id, <<>>)
    IN  IF last.op = "process_streams"
        THEN process_batch(self, batch).exc # "none"
        ELSE filter_data(self, batch,
                         Get(last.criteria_map, self.stream_id, NoCriteria)).exc
                 # "none"

\* C4: a process_streams or filter_streams pass returns normally and reports
\* exactly one line per stream, in collection order, each for the batch
\* looked up for that stream; the line is an error line exactly when the
\* call for that stream raised, and the streams after it are still visited.
C4_EveryStreamOnce ==
    last.op \in {"process_streams", "filter_streams"} =>
        /\ last.exc = "none"
        /\ Len(last.report) = Len(last.before)
        /\ \A i \in 1..Len(last.report) :
              /\ last.report[i].stream_id = last.before[i].stream_id
              /\ last.report[i].batch
                    = Get(last.data_map, last.before[i].stream_id, <<>>)
              /\ (last.report[i].kind = "error") = C4_Raises(i)
              /\ last.report[i].kind \in {"error", "result"}

\* a process_streams pass whose first call raised and whose later streams
\* were processed and counted
C4_Witness ==
    /\ last.op = "process_streams"
    /\ last.report[1].kind = "error"
    /\ last.report[2].kind = "result"
    /\ last.report[3].kind = "result"
    /\ Count(2) > CountBefore(2)
    /\ Count(3) > CountBefore(3)

\* the criteria each variant recognizes, as the interface states them
C5_Named(cls) ==
    IF cls = "SensorStream" THEN {"high", "standard"}
    ELSE IF cls = "TransactionStream" THEN {"positive", "negative"}
    ELSE {"error", "info"}

\* C5: filter_data with no criteria, or with a criteria the variant does
\* not recognize, returns the batch it was given and does not raise,
\* whatever the items are.
C5_UnrecognizedIsIdentity ==
    (last.op = "filter_data"
        /\ (last.criteria = NoCriteria \/ last.criteria \notin C5_Named(last.cls)))
        => /\ last.exc = "none"
           /\ last.filtered = last.batch

\* a mixed batch (a string and a number) filtered by a criteria that
\* another variant recognizes
C5_Witness ==
    /\ last.op = "filter_data"
    /\ last.cls = "SensorStream"
    /\ last.criteria = "error"
    /\ Len(last.batch) = 2
    /\ last.batch[1].kind = "str"
    /\ last.batch[2].kind = "int"
    /\ last.filtered = last.batch

\* a type mismatch among the items, as the interface words it: a sensor or
\* transaction batch with an item that is no number, an event batch with
\* an item that is no string
C2_TypeMismatch(cls, batch) ==
    IF cls = "EventStream"
    THEN \E j \in 1..Len(batch) : batch[j].kind # "str"
    ELSE \E j \in 1..Len(batch) : ~IsNumber(batch[j])

\* C2 as stated: process_batch on an empty batch or on a batch with a type
\* mismatch returns the failure string, leaves processed_count unchanged
\* and does not raise, for every variant.
C2_AsStated ==
    (last.op = "process_batch"
        /\ (Len(last.batch) = 0 \/ C2_TypeMismatch(last.cls, last.batch)))
        => /\ last.exc = "none"
           /\ last.result.tag = "invalid"
           /\ streams = last.before

\* sum(batch) raises TypeError: it reaches an item that is no number, and
\* no nan has met a bigint before that item
C2_SumTypeError(batch) ==
    \E j \in 1..Len(batch) :
        /\ ~IsNumber(batch[j])
        /\ \A k \in 1..(j - 1) : IsNumber(batch[k])
        /\ ~(\E k, l \in 1..(j - 1) :
                batch[k].kind = "nan" /\ batch[l].kind = "bigint")

\* the aggregation failures each variant catches
C2_Fails(cls, batch) ==
    \/ cls = "SensorStream" /\ (C2_SumTypeError(batch) \/ Len(batch) = 0)
    \/ cls = "TransactionStream" /\ C2_SumTypeError(batch)

\* C2 amended: process_batch returns the failure string, leaves the stream
\* unchanged and does not raise when sum(batch) raises TypeError
\* (SensorStream, TransactionStream) or the batch is empty (SensorStream
\* only).  Every other call that returns, among them an empty batch given
\* to TransactionStream or EventStream and non-string items given to
\* EventStream, returns a normal result and adds len(batch) to
\* processed_count.
C2_Amended ==
    last.op = "process_batch" =>
        /\ C2_Fails(last.cls, last.batch)
              => /\ last.exc = "none"
                 /\ last.result.tag = "invalid"
                 /\ streams = last.before
        /\ (~C2_Fails(last.cls, last.batch) /\ last.exc = "none")
              => /\ last.result.tag = "processed"
                 /\ last.result.n = Len(last.batch)
                 /\ Count(last.stream)
                       = CountBefore(last.stream) + Len(last.batch)

\* the empty batch given to a sensor stream that has counted before
C2_Witness ==
    /\ last.op = "process_batch"
    /\ last.cls = "SensorStream"
    /\ last.batch = <<>>
    /\ last.result.tag = "invalid"
    /\ CountBefore(last.stream) > 0

\* is the batch made of items of the type the variant is for?
C6_WellTyped(cls, batch) ==
    IF cls = "EventStream"
    THEN \A j \in 1..Len(batch) : batch[j].kind = "str"
    ELSE \A j \in 1..Len(batch) : IsNumber(batch[j])

\* the named predicates: threshold 30, sign, substring
C6_Selects(criteria, item) ==
    CASE criteria = "high" ->
            item.kind = "bigint" \/ (item.kind = "int" /\ item.val > 30)
      [] criteria = "standard" -> item.kind = "int" /\ item.val <= 30
      [] criteria = "positive" ->
            item.kind = "bigint" \/ (item.kind = "int" /\ item.val >= 0)
      [] criteria = "negative" -> item.kind = "int" /\ item.val < 0
      [] criteria = "error" -> Contains(item.text, s_error)
      [] criteria = "info" -> ~Contains(item.text, s_error)

C6_Subsequence(criteria, batch) ==
    LET Test(item) == C6_Selects(criteria, item)
    IN  SelectSeq(batch, Test)

\* the other criteria of the same variant
C6_Other(criteria) ==
    CASE criteria = "high" -> "standard"
      [] criteria = "standard" -> "high"
      [] criteria = "positive" -> "negative"
      [] criteria = "negative" -> "positive"
      [] criteria = "error" -> "info"
      [] criteria = "info" -> "error"

\* what the same stream returns for the other criteria
C6_OtherResult ==
    filter_data(last.before[last.stream], last.batch,
                C6_Other(last.criteria)).ret

C6_Case ==
    /\ last.op = "filter_data"
    /\ last.criteria \in C5_Named(last.cls)
    /\ C6_WellTyped(last.cls, last.batch)

\* C6 as stated: on a well-typed batch a recognized criteria returns the
\* order-preserving subsequence of the matching items, and the two criteria
\* of the variant select disjoint subsequences that together hold every
\* item of the batch.
C6_AsStated ==
    C6_Case =>
        /\ last.exc = "none"
        /\ last.filtered = C6_Subsequence(last.criteria, last.batch)
        /\ \A j \in 1..Len(last.batch) :
              ~(C6_Selects(last.criteria, last.batch[j])
                  /\ C6_Selects(C6_Other(last.criteria), last.batch[j]))
        /\ Len(last.filtered) + Len(C6_OtherResult) = Len(last.batch)

C6_NaNs(batch) == Cardinality({j \in 1..Len(batch) : batch[j].kind = "nan"})

\* C6 amended: as stated, except that a NaN item of a sensor or transaction
\* batch is selected by neither criteria of the variant: the two
\* subsequences are disjoint and together hold exactly the items that are
\* not NaN.
C6_Amended ==
    C6_Case =>
        /\ last.exc = "none"
        /\ last.filtered = C6_Subsequence(last.criteria, last.batch)
        /\ \A j \in 1..Len(last.batch) :
              ~(C6_Selects(last.criteria, last.batch[j])
                  /\ C6_Selects(C6_Other(last.criteria), last.batch[j]))
        /\ Len(last.filtered) + Len(C6_OtherResult)
              = Len(last.batch) - C6_NaNs(last.batch)

\* sensor batch [30, 50] with "high" yields [50]
C6_Witness ==
    /\ last.op = "filter_data"
    /\ last.cls = "SensorStream"
    /\ last.criteria = "high"
    /\ last.batch = <<PyInt(30), PyInt(50)>>
    /\ last.filtered = <<PyInt(50)>>

\* a list of ints
C7_IntBatch(batch) == \A j \in 1..Len(batch) : batch[j].kind = "int"

RECURSIVE C7_SumOf(_, _)
C7_SumOf(batch, j) ==
    IF j = 0 THEN 0 ELSE batch[j].val + C7_SumOf(batch, j - 1)

\* C7: for a batch of n >= 1 ints with sum S, SensorStream.process_batch
\* and NumericProcessor.process report the average S/n; for the empty batch
\* neither lets an exception escape.
C7_AverageAndEmpty ==
    /\ (last.op = "process_batch" /\ last.cls = "SensorStream"
           /\ C7_IntBatch(last.batch))
          => /\ last.exc = "none"
             /\ Len(last.batch) >= 1
                   => /\ last.result.tag = "processed"
                      /\ last.result.agg
                            = Quotient(C7_SumOf(last.batch, Len(last.batch)),
                                       Len(last.batch))
    /\ (last.op = "process" /\ last.data.kind = "list"
           /\ C7_IntBatch(last.data.elems))
          => /\ last.exc = "none"
             /\ Len(last.data.elems) >= 1
                   => last.summary.avg
                         = Quotient(C7_SumOf(last.data.elems,
                                             Len(last.data.elems)),
                                    Len(last.data.elems))

\* the shape each validator is for
C8_Shape(cls, data) ==
    CASE cls = "NumericProcessor" ->
            data.kind = "list"
                /\ \A j \in 1..Len(data.elems) : IsNumber(data.elems[j])
      [] cls = "TextProcessor" -> data.kind = "str"
      [] cls = "LogProcessor" ->
            data.kind = "str"
                /\ (Contains(data.text, s_ERROR) \/ Contains(data.text, s_INFO))

\* C8: validate never raises and returns true exactly when the data has
\* the shape its processor is for.
C8_ValidateDecidesShape ==
    last.op = "validate" =>
        /\ last.exc = "none"
        /\ last.valid = C8_Shape(last.cls, last.data)

====
